---- MODULE Spec2Model ----
(***************************************************************************)
(* cwextab: decoder of CodeWarrior exception tables (src/lib/src/lib.rs).  *)
(* decode_extab drives an ExtabDecoder over a byte buffer: length check,   *)
(* header, PC-range records up to a zero terminator, then action records   *)
(* up to the end of the buffer.                                            *)
(*                                                                         *)
(* Bytes are 0..255.  A u16 is a number 0..65535.  A u32 is a pair         *)
(* <<hi, lo>> of 16-bit halves, so that 32-bit values and their wrap-around*)
(* keep their width.  Buffer offsets (i32 in the source) stay far below    *)
(* 2^31 here and are plain integers; offsets in the source count from 0,   *)
(* sequences here from 1.                                                  *)
(***************************************************************************)
EXTENDS Integers, Sequences, FiniteSets, TLC

\* ------------------------------------------------------------------ bounds
\* Most records (PC-range records plus action records) in a generated buffer.
MaxRecords == 2

\* Largest entry count of a well-formed generated Specification record.
MaxSpecCount == 3

\* ------------------------------------------------------- fixed-width values
U32Zero == <<0, 0>>

\* a <= b for u32 values
U32Le(a, b) == a[1] < b[1] \/ (a[1] = b[1] /\ a[2] <= b[2])

\* u16 widened to u32 and multiplied by 4 (never overflows 32 bits)
U16Times4(v) == <<(v * 4) \div 65536, (v * 4) % 65536>>

\* the carry out of bit 31 of a + b
U32AddOverflows(a, b) == a[1] + b[1] + ((a[2] + b[2]) \div 65536) >= 65536

\* a + b modulo 2^32
U32WrappingAdd(a, b) ==
    <<(a[1] + b[1] + ((a[2] + b[2]) \div 65536)) % 65536, (a[2] + b[2]) % 65536>>

\* --------------------------------------------------------------- mem_utils
\* true when `width` bytes starting at the 0-based `off` lie inside `d`
InBounds(d, off, width) == off >= 0 /\ off + width <= Len(d)

\* Vec slicing data[start..end] (panics unless start <= end <= len)
SliceInBounds(d, start, end) == 0 <= start /\ start <= end /\ end <= Len(d)

read_byte(d, off) == d[off + 1]

read_uint16(d, off) == d[off + 1] * 256 + d[off + 2]

read_uint32(d, off) ==
    <<d[off + 1] * 256 + d[off + 2], d[off + 3] * 256 + d[off + 4]>>

\* the 0-based indices a read of `width` bytes at `off` touches
ReadSet(off, width) == off .. (off + width - 1)

\* ----------------------------------------------------------------- ExAction
KindNames ==
    << "EndOfList", "Branch", "DestroyLocal", "DestroyLocalCond",
       "DestroyLocalPointer", "DestroyLocalArray", "DestroyBase",
       "DestroyMember", "DestroyMemberCond", "DestroyMemberArray",
       "DeletePointer", "DeletePointerCond", "CatchBlock",
       "ActiveCatchBlock", "Terminate", "Specification", "CatchBlock32" >>

NoKind == "None"

\* ExAction::from_int
from_int(val) == IF val \in 0..16 THEN KindNames[val + 1] ELSE NoKind

\* ExceptionAction::has_dtor_ref
has_dtor_ref_misses_one(kind) ==
    kind \notin { "EndOfList", "Branch", "CatchBlock", "ActiveCatchBlock",
                  "Terminate", "Specification", "CatchBlock32", "DeletePointerCond" }

has_dtor_ref(kind) ==
    kind \notin { "EndOfList", "Branch", "CatchBlock", "ActiveCatchBlock",
                  "Terminate", "Specification", "CatchBlock32" }

NoOffset == -1

\* ExceptionAction::get_dtor_address_value_offset (NoOffset models None)
get_dtor_address_value_offset_no_delete(kind) ==
    CASE kind = "DestroyLocal" -> 2
      [] kind = "DestroyLocalCond" -> 6
      [] kind = "DestroyLocalPointer" -> 2
      [] kind = "DestroyLocalArray" -> 6
      [] kind \in {"DestroyBase", "DestroyMember"} -> 6
      [] kind = "DestroyMemberCond" -> 10
      [] kind = "DestroyMemberArray" -> 14
      [] kind = "DeletePointerCond" -> 6
      [] OTHER -> NoOffset

get_dtor_address_value_offset_copied(kind) ==
    CASE kind = "DestroyLocal" -> 2
      [] kind = "DestroyLocalCond" -> 6
      [] kind = "DestroyLocalPointer" -> 2
      [] kind = "DestroyLocalArray" -> 6
      [] kind \in {"DestroyBase", "DestroyMember"} -> 6
      [] kind = "DestroyMemberCond" -> 6
      [] kind = "DestroyMemberArray" -> 14
      [] kind = "DeletePointer" -> 2
      [] kind = "DeletePointerCond" -> 6
      [] OTHER -> NoOffset

get_dtor_address_value_offset(kind) ==
    CASE kind = "DestroyLocal" -> 2
      [] kind = "DestroyLocalCond" -> 6
      [] kind = "DestroyLocalPointer" -> 2
      [] kind = "DestroyLocalArray" -> 6
      [] kind \in {"DestroyBase", "DestroyMember"} -> 6
      [] kind = "DestroyMemberCond" -> 10
      [] kind = "DestroyMemberArray" -> 14
      [] kind = "DeletePointer" -> 2
      [] kind = "DeletePointerCond" -> 6
      [] OTHER -> NoOffset

\* the fixed part of the payload size chosen by parse_action_entry's match
base_size_small_catch(kind) ==
    CASE kind \in {"EndOfList", "Terminate"} -> 0
      [] kind \in {"Branch", "ActiveCatchBlock"} -> 2
      [] kind \in {"DestroyLocal", "DestroyLocalPointer", "DeletePointer"} -> 6
      [] kind \in {"DestroyLocalCond", "DestroyLocalArray", "DestroyBase",
                   "DestroyMember", "DeletePointerCond", "CatchBlock",
                   "CatchBlock32"} -> 10
      [] kind = "DestroyMemberCond" -> 14
      [] kind = "DestroyMemberArray" -> 18
      [] kind = "Specification" -> 10

base_size(kind) ==
    CASE kind \in {"EndOfList", "Terminate"} -> 0
      [] kind \in {"Branch", "ActiveCatchBlock"} -> 2
      [] kind \in {"DestroyLocal", "DestroyLocalPointer", "DeletePointer"} -> 6
      [] kind \in {"DestroyLocalCond", "DestroyLocalArray", "DestroyBase",
                   "DestroyMember", "DeletePointerCond", "CatchBlock"} -> 10
      [] kind \in {"DestroyMemberCond", "CatchBlock32"} -> 14
      [] kind = "DestroyMemberArray" -> 18
      [] kind = "Specification" -> 10

\* ------------------------------------------------------------ input buffers
RECURSIVE Flatten(_)
Flatten(ss) == IF ss = <<>> THEN <<>> ELSE Head(ss) \o Flatten(Tail(ss))

SeqsUpTo(S, n) == UNION { [1..k -> S] : k \in 0..n }

\* flags word (2 bytes), et_field (2 bytes)
PlainHeader == <<0, 0, 0, 0>>

OtherHeaders == { <<255, 255, 171, 205>>, <<0, 42, 0, 1>> }

\* start_pc (4 bytes), encoded range (2 bytes), action offset (2 bytes)
PcRecords ==
    { <<0, 1, 0, 0,   0, 4,   0, 0>>,
      <<255, 255, 255, 255,   0, 1,   0, 2>>,
      <<128, 0, 0, 1,   255, 255,   0, 8>> }

Terminator == <<0, 0, 0, 0>>

\* tags 0..16 are the action kinds; 17 and 127 are outside the enum
Tags == 0..16 \cup {17, 127}

\* 128: bit 7 alone; 193: bits 7, 6 and 0
Params == {0, 128, 193}

\* the value stored in the count field of a generated Specification record;
\* 65535 announces far more entries than any generated buffer holds
SpecCountFields == 0..MaxSpecCount \cup {65535}

PayloadByte(tag, j) == (tag * 16 + j) % 256

\* payload bytes a generated record of tag 0..16 carries after its two
\* leading bytes (Specification: before its entries)
GeneratedPayloadLen ==
    <<0, 2, 6, 10, 6, 10, 10, 10, 14, 18, 6, 10, 10, 2, 0, 10, 14>>

\* the payload a record of `tag` carries, `cnt` in the count field
Payload(tag, cnt) ==
    LET n == IF tag \notin 0..16 THEN 0
             ELSE IF tag = 15
                  THEN GeneratedPayloadLen[tag + 1]
                       + 4 * (IF cnt <= MaxSpecCount THEN cnt ELSE 0)
                  ELSE GeneratedPayloadLen[tag + 1]
    IN [j \in 1..n |->
          IF tag = 15 /\ j = 1 THEN cnt \div 256
          ELSE IF tag = 15 /\ j = 2 THEN cnt % 256
          ELSE PayloadByte(tag, j)]

\* type byte (tag, end bit in bit 7), parameter byte, payload
ActionBytes(tag, endbit, param, cnt) ==
    <<tag + 128 * endbit, param>> \o Payload(tag, cnt)

AllActionRecords ==
    UNION { { ActionBytes(tag, eb, p, c) :
                eb \in {0, 1}, p \in Params,
                c \in (IF tag = 15 THEN SpecCountFields ELSE {0}) } :
            tag \in Tags }

\* a few records used to fill the other positions of a record sequence
FillerRecords ==
    { ActionBytes(0, 0, 0, 0), ActionBytes(2, 0, 0, 0), ActionBytes(9, 1, 193, 0) }

\* sequences of at most n action records, at most one of them not a filler
ActionSeqs(n) ==
    SeqsUpTo(FillerRecords, n) \cup
    (IF n = 0 THEN {}
     ELSE UNION { { SubSeq(s, 1, i) \o <<r>> \o SubSeq(s, i + 1, Len(s)) :
                      i \in 0..Len(s), r \in AllActionRecords } :
                  s \in SeqsUpTo(FillerRecords, n - 1) })

\* what follows the header: PC-range records, terminator, action records,
\* at most n records in all
Bodies(n) ==
    UNION { { Flatten(ps) \o Terminator \o Flatten(as) :
                ps \in [1..np -> PcRecords], as \in ActionSeqs(n - np) } :
            np \in 0..n }

\* the all-zero header before every body; the other headers before the
\* bodies of at most one record
WellFormed ==
    { PlainHeader \o b : b \in Bodies(MaxRecords) } \cup
    { h \o b : h \in OtherHeaders, b \in Bodies(1) }

\* the first k bytes of b
Truncate(b, k) == SubSeq(b, 1, k)

\* ------------------------------------------------------------------- state
VARIABLES
    bytes,        \* the caller's buffer, the argument of decode_extab
    data,         \* ExtabDecoder.data
    length,       \* ExtabDecoder.length
    offset,       \* ExtabDecoder.offset, the cursor
    extab_data,   \* ExtabDecoder.extab_data, the table being built
    pc,           \* where decode_extab stands
    status,       \* what parse_exception_table returned
    touched,      \* 0-based indices of data read through the cursor so far
    result,       \* what decode_extab returned to its caller
    rendered      \* what to_string returned for the decoded table

vars ==
    <<bytes, data, length, offset, extab_data, pc, status, touched, result,
      rendered>>

\* ------------------------------------------------------- ExtabDecodeError
NoError == [name |-> "None", a |-> 0, b |-> 0]
ArrayTooSmall(n) == [name |-> "ArrayTooSmall", a |-> n, b |-> 0]
InvalidActionValue(v, off) == [name |-> "InvalidActionValue", a |-> v, b |-> off]
InvalidSmallTableTerminator == [name |-> "InvalidSmallTableTerminator", a |-> 0, b |-> 0]
Internal == [name |-> "Internal", a |-> 0, b |-> 0]

\* a panic of the running thread: no value is returned
IndexPanic == [name |-> "panic: index out of range", a |-> 0, b |-> 0]
OverflowPanic == [name |-> "panic: attempt to add with overflow", a |-> 0, b |-> 0]

StatusOk == [kind |-> "Ok", err |-> NoError]
StatusErr(e) == [kind |-> "Err", err |-> e]
StatusPanic(e) == [kind |-> "Panic", err |-> e]
StatusNone == [kind |-> "Running", err |-> NoError]

\* ExceptionTableData::calculate_flag_values
calculate_flag_values_bit2(t) ==
    [t EXCEPT !.has_elf_vector = ((t.flag_val \div 2) % 2) = 1,
              !.large_frame = ((t.flag_val \div 4) % 2) = 1,
              !.has_frame_pointer = ((t.flag_val \div 16) % 2) = 1,
              !.saved_cr = ((t.flag_val \div 32) % 2) = 1,
              !.fpr_save_range = (t.flag_val \div 64) % 32,
              !.gpr_save_range = (t.flag_val \div 2048) % 32]

calculate_flag_values(t) ==
    [t EXCEPT !.has_elf_vector = ((t.flag_val \div 2) % 2) = 1,
              !.large_frame = ((t.flag_val \div 8) % 2) = 1,
              !.has_frame_pointer = ((t.flag_val \div 16) % 2) = 1,
              !.saved_cr = ((t.flag_val \div 32) % 2) = 1,
              !.fpr_save_range = (t.flag_val \div 64) % 32,
              !.gpr_save_range = (t.flag_val \div 2048) % 32]

\* ExceptionTableData::new
NewExceptionTableData ==
    [flag_val |-> 0, has_elf_vector |-> FALSE, large_frame |-> FALSE,
     has_frame_pointer |-> FALSE, saved_cr |-> FALSE, fpr_save_range |-> 0,
     gpr_save_range |-> 0, et_field |-> 0,
     pc_actions |-> <<>>, exception_actions |-> <<>>, relocations |-> <<>>]

\* to_string has not been called
NotRendered == [called |-> FALSE]

\* ExtabDecoder::new, before decode_extab hands it the buffer
\* The buffer is any generated table or any truncation of one (the empty
\* buffer included).
Init ==
    /\ \E b \in WellFormed : \E k \in 0..Len(b) : bytes = Truncate(b, k)
    /\ data = <<>>
    /\ length = 0
    /\ offset = 0
    /\ extab_data = NewExceptionTableData
    /\ pc = "begin"
    /\ status = StatusNone
    /\ touched = {}
    /\ result = [kind |-> "Running", err |-> NoError, value |-> <<>>]
    /\ rendered = NotRendered

\* parse_exception_table left with `st`; decode_extab has still to return
Leave(st) ==
    /\ status' = st
    /\ pc' = "return"

\* the smallest buffer: header and terminator
MinLength == 8

\* the length check; its comment speaks of an empty array only
TooSmall_empty_only(len) == len = 0

TooSmall(len) == len < MinLength

\* parse_exception_table, up to the length check
Begin ==
    /\ pc = "begin"
    /\ offset' = 0
    /\ data' = bytes
    /\ length' = Len(bytes)
    /\ IF TooSmall(Len(bytes))
       THEN Leave(StatusErr(ArrayTooSmall(Len(bytes))))
       ELSE pc' = "header" /\ UNCHANGED status
    /\ UNCHANGED <<bytes, extab_data, touched, result, rendered>>

\* the test on the peeked terminator of a table of `len` bytes
BadSmallTable_wrong_length(len, terminator) == len < MinLength /\ terminator # U32Zero

BadSmallTable(len, terminator) == len = MinLength /\ terminator # U32Zero

\* parse_exception_table: the two header words and the small-table check
ParseHeader ==
    /\ pc = "header"
    /\ IF ~InBounds(data, offset, 8)
       THEN /\ Leave(StatusPanic(IndexPanic))
            /\ touched' = touched \cup
                  { i \in ReadSet(offset, 4) : InBounds(data, i - (i % 2), 2) }
            /\ UNCHANGED <<extab_data, offset>>
       ELSE LET flag_val == read_uint16(data, offset)
                et_field == read_uint16(data, offset + 2)
                terminator == read_uint32(data, offset + 4)
            IN /\ extab_data' =
                     [calculate_flag_values([extab_data EXCEPT !.flag_val = flag_val])
                         EXCEPT !.et_field = et_field]
               /\ offset' = offset + 4
               /\ touched' = touched \cup ReadSet(offset, 8)
               /\ IF BadSmallTable(length, terminator)
                  THEN Leave(StatusErr(InvalidSmallTableTerminator))
                  ELSE pc' = "pc_ranges" /\ UNCHANGED status
    /\ UNCHANGED <<bytes, data, length, result, rendered>>

\* the loop condition of the PC-range loop, negated: the peeked word is zero
IsTerminator_low_half(word) == word[2] = 0

IsTerminator(word) == word = U32Zero

\* the size in bytes a PC range covers: the encoded u16, widened, times 4
range_size(encoded) == U16Times4(encoded)

\* pcaction.start_pc + range_size when the addition is not overflow-checked
end_pc(start_pc, size) == U32WrappingAdd(start_pc, size)

\* the cursor after the three advancing reads of a PC-range record:
\* start_pc (u32), encoded range (u16), action offset (u16)
pc_record_advance_ten(off) == off + 10

pc_record_advance(off) == off + 4 + 2 + 2

\* parse_exception_table: one iteration of the PC-range loop.  The word at
\* the cursor is peeked; when it is not zero a record is consumed.  The u32
\* addition panics on overflow in a build with overflow checks and wraps in
\* one without: `overflow_checks` ranges over both builds.
ParsePcRange ==
    /\ pc = "pc_ranges"
    /\ InBounds(data, offset, 4) => ~IsTerminator(read_uint32(data, offset))
    /\ \E overflow_checks \in BOOLEAN :
         IF ~InBounds(data, offset, 4)
         THEN /\ Leave(StatusPanic(IndexPanic))
              /\ UNCHANGED <<extab_data, offset, touched>>
         ELSE IF ~InBounds(data, offset + 4, 2)
         THEN /\ Leave(StatusPanic(IndexPanic))
              /\ offset' = offset + 4
              /\ touched' = touched \cup ReadSet(offset, 4)
              /\ UNCHANGED extab_data
         ELSE LET start_pc == read_uint32(data, offset)
                  size == range_size(read_uint16(data, offset + 4))
              IN IF overflow_checks /\ U32AddOverflows(start_pc, size)
                 THEN /\ Leave(StatusPanic(OverflowPanic))
                      /\ offset' = offset + 6
                      /\ touched' = touched \cup ReadSet(offset, 6)
                      /\ UNCHANGED extab_data
                 ELSE IF ~InBounds(data, offset + 6, 2)
                 THEN /\ Leave(StatusPanic(IndexPanic))
                      /\ offset' = offset + 6
                      /\ touched' = touched \cup ReadSet(offset, 6)
                      /\ UNCHANGED extab_data
                 ELSE /\ extab_data' =
                            [extab_data EXCEPT !.pc_actions =
                                Append(@, [start_pc |-> start_pc,
                                           end_pc |-> end_pc(start_pc, size),
                                           action_offset |->
                                               read_uint16(data, offset + 6)])]
                      /\ offset' = pc_record_advance(offset)
                      /\ touched' = touched \cup ReadSet(offset, 8)
                      /\ UNCHANGED <<pc, status>>
    /\ UNCHANGED <<bytes, data, length, result, rendered>>

\* the bytes the cursor skips once the loop has peeked the zero word
terminator_skip_none == 4 - 4

terminator_skip == 4

\* parse_exception_table: the loop peeks a zero word and ends; the cursor
\* then skips the terminator
SkipTerminator ==
    /\ pc = "pc_ranges"
    /\ InBounds(data, offset, 4)
    /\ IsTerminator(read_uint32(data, offset))
    /\ touched' = touched \cup ReadSet(offset, 4)
    /\ offset' = offset + terminator_skip
    /\ pc' = "actions"
    /\ UNCHANGED <<bytes, data, length, extab_data, status, result, rendered>>

\* parse_action_entry: the payload size of a record of `kind`; `count` is the
\* peeked 16-bit entry count, used by Specification alone
payload_size(kind, count) ==
    IF kind = "Specification" THEN base_size(kind) + count * 4 ELSE base_size(kind)

\* the tag in the type byte
action_type_value_unmasked(type_byte) == type_byte

action_type_value(type_byte) == type_byte % 128

\* the end bit of the type byte
has_end_bit_bit6(type_byte) == (type_byte \div 64) % 2 = 1

has_end_bit(type_byte) == (type_byte \div 128) % 2 = 1

\* parse_action_entry: the absolute offset of the relocated field
reloc_offset_in_payload(start_index, field_offset) == field_offset

reloc_offset(start_index, field_offset) == start_index + field_offset

\* parse_action_entry: start_index, the cursor after the advancing reads of
\* the type byte and the parameter byte
payload_start_one_byte(action_offset) == action_offset + 1

payload_start(action_offset) == action_offset + 1 + 1

\* parse_exception_table: one iteration of the action loop, a whole call of
\* parse_action_entry
ParseActionEntry ==
    /\ pc = "actions"
    /\ offset < length
    /\ LET action_offset == offset
           type_byte == read_byte(data, offset)
           value == action_type_value(type_byte)
           kind == from_int(value)
           start_index == payload_start(offset)
           size == payload_size(kind, IF kind = "Specification"
                                      THEN read_uint16(data, start_index) ELSE 0)
           payload == SubSeq(data, start_index + 1, start_index + size)
           field == get_dtor_address_value_offset(kind)
           exaction == [action_offset |-> action_offset,
                        action_type |-> kind,
                        action_param |-> read_byte(data, offset + 1),
                        has_end_bit |-> has_end_bit(type_byte),
                        bytes |-> payload]
       IN IF kind = NoKind
          THEN /\ Leave(StatusErr(InvalidActionValue(value, action_offset)))
               /\ offset' = offset + 1
               /\ touched' = touched \cup ReadSet(offset, 1)
               /\ UNCHANGED extab_data
          ELSE IF ~InBounds(data, offset + 1, 1)
          THEN /\ Leave(StatusPanic(IndexPanic))
               /\ offset' = offset + 1
               /\ touched' = touched \cup ReadSet(offset, 1)
               /\ UNCHANGED extab_data
          ELSE IF kind = "Specification" /\ ~InBounds(data, start_index, 2)
          THEN /\ Leave(StatusPanic(IndexPanic))
               /\ offset' = start_index
               /\ touched' = touched \cup ReadSet(offset, 2)
               /\ UNCHANGED extab_data
          ELSE IF ~SliceInBounds(data, start_index, start_index + size)
          THEN /\ Leave(StatusPanic(IndexPanic))
               /\ offset' = start_index
               /\ touched' = touched \cup ReadSet(offset, 2) \cup
                     (IF kind = "Specification" THEN ReadSet(start_index, 2) ELSE {})
               /\ UNCHANGED extab_data
          ELSE IF has_dtor_ref(kind) /\ field = NoOffset
          THEN /\ Leave(StatusErr(Internal))
               /\ offset' = start_index + size
               /\ touched' = touched \cup ReadSet(offset, 2 + size)
               /\ UNCHANGED extab_data
          ELSE IF has_dtor_ref(kind) /\ ~InBounds(payload, field, 4)
          THEN /\ Leave(StatusPanic(IndexPanic))
               /\ offset' = start_index + size
               /\ touched' = touched \cup ReadSet(offset, 2 + size)
               /\ UNCHANGED extab_data
          ELSE /\ extab_data' =
                     [extab_data EXCEPT
                        !.relocations =
                            IF has_dtor_ref(kind)
                            THEN Append(@, [offset |-> reloc_offset(start_index, field),
                                            address |-> read_uint32(payload, field)])
                            ELSE @,
                        !.exception_actions = Append(@, exaction)]
               /\ offset' = start_index + size
               /\ touched' = touched \cup ReadSet(offset, 2 + size)
               /\ UNCHANGED <<pc, status>>
    /\ UNCHANGED <<bytes, data, length, result, rendered>>

\* parse_exception_table: the cursor reached the end of the buffer
EndOfActions ==
    /\ pc = "actions"
    /\ ~(offset < length)
    /\ Leave(StatusOk)
    /\ UNCHANGED <<bytes, data, length, offset, extab_data, touched, result, rendered>>

\* decode_extab: what the caller receives for parse_exception_table's `st`
decode_result_keeps_table(st, table) ==
    [kind |-> st.kind, err |-> st.err, value |-> <<table>>]

decode_result(st, table) ==
    IF st.kind = "Ok"
    THEN [kind |-> "Ok", err |-> NoError, value |-> <<table>>]
    ELSE [kind |-> st.kind, err |-> st.err, value |-> <<>>]

\* decode_extab: `?` on the parse result, then Ok(decoder.extab_data)
Return ==
    /\ pc = "return"
    /\ result' = decode_result(status, extab_data)
    /\ pc' = "done"
    /\ UNCHANGED <<bytes, data, length, offset, extab_data, status, touched,
                   rendered>>

\* ------------------------------------------------------ get_exaction_data
\* the fields get_exaction_data reads for `kind`, in reading order, each with
\* its width in bytes (Specification: the fields before the spec entries)
exaction_fields(kind) ==
    CASE kind \in {"EndOfList", "Terminate"} -> <<>>
      [] kind = "Branch" -> << <<"target_offset", 2>> >>
      [] kind = "DestroyLocal" -> << <<"local_offset", 2>>, <<"dtor_address", 4>> >>
      [] kind = "DestroyLocalCond" ->
            << <<"condition", 2>>, <<"local_offset", 2>>, <<"unk4", 2>>,
               <<"dtor_address", 4>> >>
      [] kind = "DestroyLocalPointer" ->
            << <<"local_pointer", 2>>, <<"dtor_address", 4>> >>
      [] kind = "DestroyLocalArray" ->
            << <<"local_array", 2>>, <<"elements", 2>>, <<"element_size", 2>>,
               <<"dtor_address", 4>> >>
      [] kind \in {"DestroyBase", "DestroyMember"} ->
            << <<"object_pointer", 2>>, <<"member_offset", 4>>,
               <<"dtor_address", 4>> >>
      [] kind = "DestroyMemberCond" ->
            << <<"condition", 2>>, <<"object_pointer", 2>>, <<"member_offset", 4>>,
               <<"unk8", 2>>, <<"dtor_address", 4>> >>
      [] kind = "DestroyMemberArray" ->
            << <<"object_pointer", 2>>, <<"member_offset", 4>>, <<"elements", 4>>,
               <<"element_size", 4>>, <<"dtor_address", 4>> >>
      [] kind = "DeletePointer" ->
            << <<"object_pointer", 2>>, <<"dtor_address", 4>> >>
      [] kind = "DeletePointerCond" ->
            << <<"condition", 2>>, <<"object_pointer", 2>>, <<"unk4", 2>>,
               <<"dtor_address", 4>> >>
      [] kind = "CatchBlock" ->
            << <<"unk0", 2>>, <<"catch_type", 4>>, <<"catch_pc_offset", 2>>,
               <<"cinfo_ref", 2>> >>
      [] kind = "ActiveCatchBlock" -> << <<"cinfo_ref", 2>> >>
      [] kind = "Specification" ->
            << <<"specs", 2>>, <<"pc_offset", 4>>, <<"cinfo_ref", 4>> >>
      [] kind = "CatchBlock32" ->
            << <<"unk0", 2>>, <<"catch_type", 4>>, <<"catch_pc_offset", 4>>,
               <<"cinfo_ref", 4>> >>

\* the advancing reads of `layout` over `b` from `off` on; a u16 is kept
\* widened, as <<0, v>>.  A read past the end of `b` panics.
RECURSIVE read_fields(_, _, _, _)
read_fields(b, layout, off, acc) ==
    IF layout = <<>>
    THEN [fields |-> acc, offset |-> off, panicked |-> FALSE]
    ELSE LET name == Head(layout)[1]
             width == Head(layout)[2]
         IN IF ~InBounds(b, off, width)
            THEN [fields |-> acc, offset |-> off, panicked |-> TRUE]
            ELSE read_fields(b, Tail(layout), off + width,
                    Append(acc, [name |-> name, width |-> width,
                                 value |-> IF width = 2
                                           THEN <<0, read_uint16(b, off)>>
                                           ELSE read_uint32(b, off)]))

\* get_exaction_data, Specification: the reads of the loop `for _i in
\* 0..length`, one u32 per entry
spec_entries_one_less(specs) == [i \in 1..(specs - 1) |-> <<"spec", 4>>]

spec_entries(specs) == [i \in 1..specs |-> <<"spec", 4>>]

\* ExceptionAction::get_exaction_data: the variant of the record's kind, its
\* fields read one after the other from payload offset 0, and the offset the
\* reads ended at
get_exaction_data(action) ==
    LET fixed == read_fields(action.bytes, exaction_fields(action.action_type),
                             0, <<>>)
    IN IF action.action_type = "Specification" /\ ~fixed.panicked
       THEN LET specs == fixed.fields[1].value[2]
            IN [variant |-> action.action_type] @@
               read_fields(action.bytes, spec_entries(specs),
                           fixed.offset, fixed.fields)
       ELSE [variant |-> action.action_type] @@ fixed

\* the value of the field `name` of decoded action data `d`
field_value(d, name) ==
    d.fields[CHOOSE i \in 1..Len(d.fields) : d.fields[i].name = name].value

\* ----------------------------------------------------------------- to_string
\* ExAction::to_int
to_int(kind) == (CHOOSE i \in 1..17 : KindNames[i] = kind) - 1

ACTION_NAMES ==
    << "NULL", "BRANCH", "DESTROYLOCAL", "DESTROYLOCALCOND",
       "DESTROYLOCALPOINTER", "DESTROYLOCALARRAY", "DESTROYBASE",
       "DESTROYMEMBER", "DESTROYMEMBERCOND", "DESTROYMEMBERARRAY",
       "DELETEPOINTER", "DELETEPOINTERCOND", "CATCHBLOCK (Small)",
       "ACTIVECATCHBLOCK", "TERMINATE", "SPECIFICATION", "CATCHBLOCK (Large)" >>

\* ExAction::convert_to_string
convert_to_string(kind) == ACTION_NAMES[to_int(kind) + 1]

\* a line of the report: its label, how its first value is addressed
\* ("frame": an offset from the frame register `reg`; "register": a register
\* number; "plain": a number) and the values printed
Line(label, mode, args) == [label |-> label, mode |-> mode, args |-> args]

\* to_string, DestroyLocalCond: the condition is a register number
cond_is_register_bit0(param) == param % 2 = 1

cond_is_register(param) == ~(param = 0)

\* action_param >> 7
param_bit7(param) == param \div 128

\* (action_param >> 6) & 1
param_bit6(param) == (param \div 64) % 2

\* to_string: "Saved FPR range" / "Saved GPR range", absent for a count of 0
saved_range(prefix, count) ==
    IF count = 0 THEN <<>>
    ELSE LET start == 31 - (count - 1)
         IN IF start = 31 THEN << <<prefix, 31>> >>
            ELSE << <<prefix, start, prefix, 31>> >>

\* to_string: one line per PC range, the end left out when it equals the start
pc_action_line(action) ==
    IF action.start_pc # action.end_pc
    THEN <<"PC", action.start_pc, action.end_pc, action.action_offset>>
    ELSE <<"PC", action.start_pc, action.action_offset>>

\* to_string: the lines of the match on exaction_data
exaction_lines(action, d, reg) ==
    LET kind == action.action_type
        param == action.action_param
        f(name) == field_value(d, name)
        member(reg_mode) ==
            IF reg_mode = 0
            THEN Line("Member", "frame", <<f("object_pointer"), reg, f("member_offset")>>)
            ELSE Line("Member", "register", <<f("member_offset"), f("object_pointer")>>)
        pointer(reg_mode, name) ==
            IF reg_mode = 0
            THEN Line("Pointer", "frame", <<f(name), reg>>)
            ELSE Line("Pointer", "register", <<f(name)>>)
        cond(is_register) ==
            IF ~is_register
            THEN Line("Cond", "frame", <<f("condition"), reg>>)
            ELSE Line("Cond", "register", <<f("condition")>>)
    IN CASE kind \in {"EndOfList", "Terminate"} -> <<>>
         [] kind = "Branch" -> << Line("Action", "plain", <<f("target_offset")>>) >>
         [] kind = "DestroyLocal" ->
               << Line("Local", "frame", <<f("local_offset"), reg>>) >>
         [] kind = "DestroyLocalCond" ->
               << Line("Local", "frame", <<f("local_offset"), reg>>),
                  cond(cond_is_register(param)) >>
         [] kind = "DestroyLocalPointer" ->
               << pointer(param_bit7(param), "local_pointer") >>
         [] kind = "DestroyLocalArray" ->
               << Line("Array", "frame", <<f("local_array"), reg>>),
                  Line("Elements", "plain", <<f("elements")>>),
                  Line("Size", "plain", <<f("element_size")>>) >>
         [] kind \in {"DestroyBase", "DestroyMember"} ->
               << member(param_bit7(param)) >>
         [] kind = "DestroyMemberCond" ->
               << member(param_bit6(param)), cond(param_bit7(param) # 0) >>
         [] kind = "DestroyMemberArray" ->
               << member(param_bit7(param)),
                  Line("Elements", "plain", <<f("elements")>>),
                  Line("Size", "plain", <<f("element_size")>>) >>
         [] kind = "DeletePointer" ->
               << pointer(param_bit7(param), "object_pointer") >>
         [] kind = "DeletePointerCond" ->
               << pointer(param_bit6(param), "object_pointer"),
                  cond(param_bit7(param) # 0) >>
         [] kind \in {"CatchBlock", "CatchBlock32"} ->
               << Line("Local", "frame", <<f("cinfo_ref"), reg>>),
                  Line("PC", "plain", <<f("catch_pc_offset")>>),
                  Line("catch_type_addr", "plain", <<f("catch_type")>>) >>
         [] kind = "ActiveCatchBlock" ->
               << Line("Local", "frame", <<f("cinfo_ref"), reg>>) >>
         [] kind = "Specification" ->
               << Line("Local", "frame", <<f("cinfo_ref"), reg>>),
                  Line("PC", "plain", <<f("pc_offset")>>),
                  Line("Types", "plain", <<f("specs")>>) >>

NoDtorLine == [shown |-> "none", index |-> 0, name |-> <<>>]
InvalidIndexLine(i) ==
    [shown |-> "Error: Invalid function array index", index |-> i, name |-> <<>>]
DtorLine(i, func_name) == [shown |-> "Dtor", index |-> i, name |-> func_name]

\* to_string: the destructor line of a record, func_index counting from 0
dtor_line(has_ref, func_index, func_names) ==
    IF ~has_ref THEN NoDtorLine
    ELSE IF func_index >= Len(func_names) THEN InvalidIndexLine(func_index)
    ELSE DtorLine(func_index, func_names[func_index + 1])

\* to_string: func_index after a record
next_func_index_always(has_ref, func_index, func_names) == func_index + 1

next_func_index(has_ref, func_index, func_names) ==
    IF has_ref /\ ~(func_index >= Len(func_names)) THEN func_index + 1
    ELSE func_index

\* to_string: the loop over exception_actions from record i on
RECURSIVE render_actions(_, _, _, _, _)
render_actions(table, i, func_index, func_names, acc) ==
    IF i > Len(table.exception_actions) THEN acc
    ELSE LET action == table.exception_actions[i]
             reg == IF table.has_frame_pointer THEN "FP" ELSE "SP"
             has_ref == has_dtor_ref(action.action_type)
             d == get_exaction_data(action)
             entry == [action_offset |-> action.action_offset,
                       action_name |-> convert_to_string(action.action_type),
                       exaction_data |-> d,
                       lines |-> IF d.panicked THEN <<>>
                                 ELSE exaction_lines(action, d, reg),
                       dtor |-> dtor_line(has_ref, func_index, func_names),
                       end_bit_line |-> action.has_end_bit]
         IN render_actions(table, i + 1,
                next_func_index(has_ref, func_index, func_names),
                func_names, Append(acc, entry))

\* ExceptionTableData::to_string.  The report is kept as its parts instead
\* of one string.  `some` is FALSE when a read of get_exaction_data panicked.
to_string(table, func_names) ==
    LET actions == render_actions(table, 1, 0, func_names, <<>>)
    IN [called |-> TRUE,
        some |-> \A i \in 1..Len(actions) : ~actions[i].exaction_data.panicked,
        func_names |-> func_names,
        flags |-> <<table.has_elf_vector, table.large_frame,
                    table.has_frame_pointer, table.saved_cr>>,
        saved_fpr |-> saved_range("fp", table.fpr_save_range),
        saved_gpr |-> saved_range("r", table.gpr_save_range),
        pc_lines |-> [i \in 1..Len(table.pc_actions) |->
                         pc_action_line(table.pc_actions[i])],
        actions |-> actions]

\* most names a caller passes to to_string
MaxNames == 3

\* the caller's i-th destructor name
FuncName(i) == <<"dtor", i>>

\* the caller renders the decoded table with a list of n names
Render ==
    /\ pc = "done"
    /\ result.kind = "Ok"
    /\ \E n \in 0..MaxNames :
          rendered' = to_string(result.value[1], [i \in 1..n |-> FuncName(i)])
    /\ pc' = "shown"
    /\ UNCHANGED <<bytes, data, length, offset, extab_data, status, touched,
                   result>>

Next ==
    \/ Begin
    \/ ParseHeader
    \/ ParsePcRange
    \/ SkipTerminator
    \/ ParseActionEntry
    \/ EndOfActions
    \/ Return
    \/ Render

Spec == Init /\ [][Next]_vars

TypeOK ==
    /\ pc \in {"begin", "header", "pc_ranges", "actions", "return", "done", "shown"}
    /\ offset \in 0..(Len(bytes) + 4)
    /\ touched \subseteq 0..(Len(bytes) - 1)

\* ------------------------------------------------------------------ claims
\* decode_extab has returned Ok; Table is the value the caller holds
Success == pc \in {"done", "shown"} /\ result.kind = "Ok"

Table == result.value[1]

\* the big-endian 32-bit word of the caller's buffer at 0-based offset `off`
WordAt(off) ==
    <<bytes[off + 1] * 256 + bytes[off + 2], bytes[off + 3] * 256 + bytes[off + 4]>>

\* C1: a buffer of length L < 8 (the empty one included) makes decode_extab
\* fail with ArrayTooSmall(L), and no byte has been read through the cursor.
C1_ArrayTooSmall ==
    (pc = "done" /\ Len(bytes) < 8) =>
        /\ result.kind = "Err"
        /\ result.err = ArrayTooSmall(Len(bytes))
        /\ result.value = <<>>
        /\ touched = {}

C1_Witness ==
    /\ pc = "done"
    /\ Len(bytes) = 7
    /\ result.err = ArrayTooSmall(7)

\* C2: a buffer of exactly 8 bytes fails with InvalidSmallTableTerminator when
\* some byte of bytes 4..8 is not zero, and otherwise succeeds with empty
\* pc_actions, exception_actions and relocations, whatever the header holds.
C2_SmallTable ==
    (pc = "done" /\ Len(bytes) = 8) =>
        IF \E i \in 5..8 : bytes[i] # 0
        THEN /\ result.kind = "Err"
             /\ result.err = InvalidSmallTableTerminator
        ELSE /\ result.kind = "Ok"
             /\ Table.pc_actions = <<>>
             /\ Table.exception_actions = <<>>
             /\ Table.relocations = <<>>

C2_Witness ==
    /\ Success
    /\ Len(bytes) = 8
    /\ bytes[1] = 255
    /\ Table.pc_actions = <<>>

\* C3: when a read would extend past the end of a buffer of at least 8 bytes,
\* decode_extab returns the error TruncatedBuffer instead of crashing.
C3_TruncatedBufferError ==
    (pc = "done" /\ Len(bytes) >= 8 /\ status.err = IndexPanic) =>
        /\ result.kind = "Err"
        /\ result.err.name = "TruncatedBuffer"

\* C4: at an action record boundary R whose byte has low 7 bits T outside
\* 0..16, the decode fails with InvalidActionValue(T, R): no byte after R is
\* read, no record is added, and decode_extab returns that error.
C4_InvalidActionValue ==
    [][ /\ (pc = "actions" /\ offset < length /\ (data[offset + 1] % 128) \notin 0..16) =>
            /\ status' = StatusErr(InvalidActionValue(data[offset + 1] % 128, offset))
            /\ pc' = "return"
            /\ touched' \subseteq 0..offset
            /\ extab_data' = extab_data
        /\ (pc = "return" /\ status.err.name = "InvalidActionValue") =>
            /\ result'.kind = "Err"
            /\ result'.err = status.err
      ]_vars

C4_Witness ==
    /\ pc = "done"
    /\ result.err = InvalidActionValue(17, Len(bytes) - 1)
    /\ bytes[Len(bytes)] = 145
    /\ Len(extab_data.exception_actions) = 1

\* C5: when a decode step fails, decode_extab returns the error alone, with
\* nothing of the table built so far, and no step follows the failing one.
C5_NoPartialTable ==
    /\ result.kind = "Err" => result.value = <<>>
    /\ status.kind = "Err" => pc \in {"return", "done"}
    /\ (pc = "done" /\ status.kind = "Err") =>
            (result.kind = "Err" /\ result.err = status.err)

C5_Witness ==
    /\ pc = "done"
    /\ result.kind = "Err"
    /\ extab_data.exception_actions # <<>>
    /\ extab_data.relocations # <<>>

\* the kinds that carry a destructor reference, as the claims list them
DtorBearing(kind) ==
    kind \in { "DestroyLocal", "DestroyLocalCond", "DestroyLocalPointer",
               "DestroyLocalArray", "DestroyBase", "DestroyMember",
               "DestroyMemberCond", "DestroyMemberArray", "DeletePointer",
               "DeletePointerCond" }

IsDtorRecord(rec) == DtorBearing(rec.action_type)

DtorRecords == SelectSeq(Table.exception_actions, IsDtorRecord)

\* the field offsets of C6
FieldOffset(kind) ==
    CASE kind \in {"DestroyLocal", "DestroyLocalPointer", "DeletePointer"} -> 2
      [] kind \in {"DestroyLocalCond", "DestroyLocalArray", "DestroyBase",
                   "DestroyMember", "DeletePointerCond"} -> 6
      [] kind = "DestroyMemberCond" -> 10
      [] kind = "DestroyMemberArray" -> 14

\* C6: in a successful decode the relocation of the destructor-bearing record
\* at offset R has offset R + 2 + fieldOffset(kind) and holds the big-endian
\* word of the input buffer at that offset.
C6_RelocationOffset ==
    Success =>
        \A k \in 1..Len(DtorRecords) :
            /\ k <= Len(Table.relocations)
            /\ Table.relocations[k].offset =
                   DtorRecords[k].action_offset + 2
                   + FieldOffset(DtorRecords[k].action_type)
            /\ Table.relocations[k].address = WordAt(Table.relocations[k].offset)

C6_Witness ==
    /\ Success
    /\ Len(Table.exception_actions) = 2
    /\ Table.exception_actions[2].action_type = "DestroyMemberCond"
    /\ Table.relocations[Len(Table.relocations)].offset
           = Table.exception_actions[2].action_offset + 12

\* C7: a successful decode has one relocation per destructor-bearing record
\* and none for the other kinds; the k-th relocation lies inside the k-th
\* destructor-bearing record, and relocation offsets strictly increase.
C7_OneRelocationPerDtor ==
    Success =>
        /\ Len(Table.relocations) = Len(DtorRecords)
        /\ \A k \in 1..Len(Table.relocations) :
              /\ k <= Len(DtorRecords)
              /\ Table.relocations[k].offset >= DtorRecords[k].action_offset + 2
              /\ Table.relocations[k].offset + 4 <=
                    DtorRecords[k].action_offset + 2 + Len(DtorRecords[k].bytes)
        /\ \A k \in 1..(Len(Table.relocations) - 1) :
              Table.relocations[k].offset < Table.relocations[k + 1].offset

C7_Witness ==
    /\ Success
    /\ Len(Table.exception_actions) = 2
    /\ Len(Table.relocations) = 2
    /\ Table.exception_actions[1].action_type = "DeletePointerCond"
    /\ Table.relocations[1].offset < Table.relocations[2].offset

\* the payload sizes of C8; `payload` gives Specification its count
PayloadSize(kind, payload) ==
    CASE kind \in {"EndOfList", "Terminate"} -> 0
      [] kind \in {"Branch", "ActiveCatchBlock"} -> 2
      [] kind \in {"DestroyLocal", "DestroyLocalPointer", "DeletePointer"} -> 6
      [] kind \in {"DestroyLocalCond", "DestroyLocalArray", "DestroyBase",
                   "DestroyMember", "DeletePointerCond", "CatchBlock"} -> 10
      [] kind \in {"DestroyMemberCond", "CatchBlock32"} -> 14
      [] kind = "DestroyMemberArray" -> 18
      [] kind = "Specification" -> 10 + 4 * (payload[1] * 256 + payload[2])

\* C8: in a successful decode every record's payload has the size of its
\* kind, 10 + 4 * count for Specification with count the 16-bit value at the
\* payload's first two bytes, and is the buffer's bytes right after the
\* record's two leading bytes.
C8_PayloadSize ==
    Success =>
        \A i \in 1..Len(Table.exception_actions) :
            LET rec == Table.exception_actions[i]
            IN /\ (rec.action_type = "Specification" => Len(rec.bytes) >= 2)
               /\ Len(rec.bytes) = PayloadSize(rec.action_type, rec.bytes)
               /\ rec.bytes = SubSeq(bytes, rec.action_offset + 3,
                                     rec.action_offset + 2 + Len(rec.bytes))

C8_Witness ==
    /\ Success
    /\ \E i \in 1..Len(Table.exception_actions) :
          /\ Table.exception_actions[i].action_type = "Specification"
          /\ Table.exception_actions[i].bytes[2] = 3
          /\ Len(Table.exception_actions[i].bytes) = 22

\* the offset of the word that ended the PC-range loop after n records
\* (a header of 4 bytes, then records of 8 bytes)
TerminatorOffset(n) == 4 + 8 * n

\* what C9 says of a table `t` whose PC-range loop has ended, the first
\* action record starting at `first`
PcRangesEndAtFirstZero(t, first) ==
    LET n == Len(t.pc_actions)
    IN /\ WordAt(TerminatorOffset(n)) = <<0, 0>>
       /\ first = TerminatorOffset(n) + 4
       /\ \A i \in 1..n :
             /\ WordAt(TerminatorOffset(i - 1)) # <<0, 0>>
             /\ t.pc_actions[i].start_pc = WordAt(TerminatorOffset(i - 1))

\* C9: the PC-range loop stops at the first record position holding a zero
\* word and makes no PcRange of it; the cursor then stands 4 bytes past that
\* word, where the first action record starts; pc_actions is in buffer order.
C9_TerminatorConsumed ==
    /\ (pc = "actions" /\ extab_data.exception_actions = <<>>) =>
            PcRangesEndAtFirstZero(extab_data, offset)
    /\ (Success /\ Table.exception_actions # <<>>) =>
            PcRangesEndAtFirstZero(Table, Table.exception_actions[1].action_offset)
    /\ (Success /\ Table.exception_actions = <<>>) =>
            PcRangesEndAtFirstZero(Table, Len(bytes))

C9_Witness ==
    /\ Success
    /\ Len(Table.pc_actions) = 1
    /\ Table.pc_actions[1].start_pc = <<1, 0>>
    /\ Len(Table.exception_actions) = 1
    /\ Table.exception_actions[1].action_offset = 16
    /\ bytes[17] # 0

\* C10: every PcRange of a successful decode has end_pc = start_pc + 4 *
\* encoded_range, the sum taken without wrap-around, and so end_pc >= start_pc
\* as unsigned 32-bit values.
C10_EndPcNotBelowStart ==
    Success =>
        \A i \in 1..Len(Table.pc_actions) :
            LET r == Table.pc_actions[i]
                rec == TerminatorOffset(i - 1)
                encoded_range == bytes[rec + 5] * 256 + bytes[rec + 6]
                lo == r.start_pc[2] + ((encoded_range * 4) % 65536)
                hi == r.start_pc[1] + ((encoded_range * 4) \div 65536) + (lo \div 65536)
            IN /\ r.end_pc = <<hi, lo % 65536>>
               /\ U32Le(r.start_pc, r.end_pc)

\* ---------------------------------------------------------------------- C11
\* the number of destructor-bearing records before record i of the table
DtorRecordsBefore(i) ==
    Cardinality({j \in 1..(i - 1) : IsDtorRecord(Table.exception_actions[j])})

EtFields == {<<0, 1>>, <<171, 205>>}

InitFlags ==
    /\ \E F \in 0..65535 : \E et \in EtFields :
          bytes = <<F \div 256, F % 256>> \o et \o Terminator
    /\ data = <<>>
    /\ length = 0
    /\ offset = 0
    /\ extab_data = NewExceptionTableData
    /\ pc = "begin"
    /\ status = StatusNone
    /\ touched = {}
    /\ result = [kind |-> "Running", err |-> NoError, value |-> <<>>]
    /\ rendered = NotRendered

\* the steps of decode_extab on a table without records
NextFlags ==
    \/ Begin
    \/ ParseHeader
    \/ SkipTerminator
    \/ EndOfActions
    \/ Return

SpecFlags == InitFlags /\ [][NextFlags]_vars

\* bit n of the 16-bit word F
FlagBit(F, n) == (F \div (2 ^ n)) % 2 = 1

\* the fields C12 derives from the flags word F
ExpectedFlags(F) ==
    [has_elf_vector |-> FlagBit(F, 1),
     large_frame |-> FlagBit(F, 3),
     has_frame_pointer |-> FlagBit(F, 4),
     saved_cr |-> FlagBit(F, 5),
     fpr_save_range |-> (F % 2048) \div 64,
     gpr_save_range |-> F \div 2048]

\* F with bits 0 and 2 cleared
WithoutBits0And2(F) ==
    F - (IF FlagBit(F, 0) THEN 1 ELSE 0) - (IF FlagBit(F, 2) THEN 4 ELSE 0)

\* C12: for the flags word F at bytes 0..2 (big-endian) a successful decode
\* has flag_val = F, has_elf_vector = bit 1, large_frame = bit 3,
\* has_frame_pointer = bit 4, saved_cr = bit 5, fpr_save_range = bits 6..10,
\* gpr_save_range = bits 11..15, both in 0..31; bits 0 and 2 change no
\* derived field; et_field is the big-endian word at bytes 2..4.
C12_FlagBits ==
    Success =>
        LET F == bytes[1] * 256 + bytes[2]
            derived == [n \in DOMAIN ExpectedFlags(F) |-> Table[n]]
        IN /\ Table.flag_val = F
           /\ derived = ExpectedFlags(F)
           /\ derived = ExpectedFlags(WithoutBits0And2(F))
           /\ Table.fpr_save_range \in 0..31
           /\ Table.gpr_save_range \in 0..31
           /\ Table.et_field = bytes[3] * 256 + bytes[4]

\* the decode of the flags word 0xFFFF: bits 0 and 2 are set, every flag is
\* true and both ranges are 31
C12_Witness ==
    /\ Success
    /\ bytes[1] = 255 /\ bytes[2] = 255
    /\ Table.large_frame /\ Table.saved_cr
    /\ Table.fpr_save_range = 31 /\ Table.gpr_save_range = 31
    /\ Table.et_field = 171 * 256 + 205

\* ---------------------------------------------------------------------- C13
\* the type byte of record `rec` in the input buffer
TypeByte(rec) == bytes[rec.action_offset + 1]

\* C13: for every action record of a successful decode with type byte B,
\* has_end_bit holds exactly when bit 7 of B is set, and the kind, the
\* payload size, the parameter byte and the relocation are those given by
\* B & 0x7F and the bytes after B, whatever bit 7 is.
C13_EndBit ==
    Success =>
        \A i \in 1..Len(Table.exception_actions) :
            LET rec == Table.exception_actions[i]
                B == TypeByte(rec)
                low7 == IF B >= 128 THEN B - 128 ELSE B
                k == DtorRecordsBefore(i) + 1
            IN /\ rec.has_end_bit = (B >= 128)
               /\ low7 <= 16
               /\ rec.action_type = KindNames[low7 + 1]
               /\ Len(rec.bytes) = PayloadSize(KindNames[low7 + 1], rec.bytes)
               /\ rec.action_param = bytes[rec.action_offset + 2]
               /\ DtorBearing(KindNames[low7 + 1]) =>
                     /\ k <= Len(Table.relocations)
                     /\ Table.relocations[k].offset =
                           rec.action_offset + 2 + FieldOffset(KindNames[low7 + 1])

\* two records of one kind, the first with bit 7 set and the second without,
\* each with its relocation
C13_Witness ==
    /\ Success
    /\ Len(Table.exception_actions) = 2
    /\ Table.exception_actions[1].has_end_bit
    /\ ~Table.exception_actions[2].has_end_bit
    /\ Table.exception_actions[1].action_type = Table.exception_actions[2].action_type
    /\ Len(Table.relocations) = 2

\* ---------------------------------------------------------------------- C14
\* C14 as claimed: an iteration of the PC-range loop that sees a nonzero
\* peeked word advances the cursor by 10 bytes, the n-th record starting at
\* offset 4 + 10 * n.
C14_TenByteRecord ==
    [][(pc = "pc_ranges" /\ pc' = "pc_ranges") =>
          /\ offset = 4 + 10 * Len(extab_data.pc_actions)
          /\ offset' = offset + 10]_vars

\* C14, amended: an iteration of the PC-range loop that sees a nonzero peeked
\* word consumes an 8-byte record (start_pc u32, encoded range u16,
\* action_offset u16): the cursor advances by 8, the n-th record starts at
\* offset 4 + 8 * n, and the appended range holds the record's first and
\* last field.
C14_EightByteRecord ==
    [][(pc = "pc_ranges" /\ pc' = "pc_ranges") =>
          LET n == Len(extab_data.pc_actions)
          IN /\ offset = 4 + 8 * n
             /\ offset' = offset + 8
             /\ Len(extab_data'.pc_actions) = n + 1
             /\ extab_data'.pc_actions[n + 1].start_pc = WordAt(offset)
             /\ extab_data'.pc_actions[n + 1].action_offset =
                   bytes[offset + 7] * 256 + bytes[offset + 8]]_vars

\* two PC-range records consumed: the cursor stands 16 bytes after the header
C14_Witness ==
    /\ pc = "pc_ranges"
    /\ Len(extab_data.pc_actions) = 2
    /\ offset = 20

\* ---------------------------------------------------------------------- C15
\* the index in exception_actions of the record of the k-th relocation
RecordOfRelocation(k) ==
    CHOOSE i \in 1..Len(Table.exception_actions) :
        /\ IsDtorRecord(Table.exception_actions[i])
        /\ DtorRecordsBefore(i) = k - 1

\* the 4-byte field at `off` lies inside the payload of record `rec`
FieldInsidePayload(off, rec) ==
    /\ rec.action_offset + 2 <= off
    /\ off + 4 <= rec.action_offset + 2 + Len(rec.bytes)

\* the number of records without payload (EndOfList, Terminate) before record i
EmptyRecordsBefore(i) ==
    Cardinality({j \in 1..(i - 1) : Table.exception_actions[j].bytes = <<>>})

\* C15 as claimed: in a successful decode every relocation's offset is a
\* multiple of 4 and its 4-byte field lies inside the payload of its record.
C15_AlignedRelocation ==
    Success =>
        /\ Len(Table.relocations) = Len(DtorRecords)
        /\ \A k \in 1..Len(Table.relocations) :
              /\ Table.relocations[k].offset % 4 = 0
              /\ FieldInsidePayload(Table.relocations[k].offset, DtorRecords[k])

\* C15, amended: in a successful decode every relocation's 4-byte field lies
\* inside the payload of its record, at a multiple of 4 bytes from the start
\* of the record; the offset itself is a multiple of 4 exactly when an even
\* number of 2-byte records (EndOfList, Terminate) precede the record.
C15_RelocationInsidePayload ==
    Success =>
        /\ Len(Table.relocations) = Len(DtorRecords)
        /\ \A k \in 1..Len(Table.relocations) :
              LET i == RecordOfRelocation(k)
                  rec == Table.exception_actions[i]
                  off == Table.relocations[k].offset
              IN /\ FieldInsidePayload(off, rec)
                 /\ (off - rec.action_offset) % 4 = 0
                 /\ (off % 4 = 0) <=> (EmptyRecordsBefore(i) % 2 = 0)

\* a destructor-bearing record after one EndOfList record: its relocation
\* offset is 2 modulo 4
C15_Witness ==
    /\ Success
    /\ Len(Table.exception_actions) = 2
    /\ Table.exception_actions[1].action_type = "EndOfList"
    /\ Len(Table.relocations) = 1
    /\ Table.relocations[1].offset % 4 = 2

\* ---------------------------------------------------------------------- C16
\* the "Cond" line of the i-th rendered record
CondLine(i) ==
    LET lines == rendered.actions[i].lines
    IN lines[CHOOSE j \in 1..Len(lines) : lines[j].label = "Cond"]

\* the rendered records of kind DestroyLocalCond
DestroyLocalCondRecords ==
    {i \in 1..Len(Table.exception_actions) :
        Table.exception_actions[i].action_type = "DestroyLocalCond"}

\* C16 as claimed: the condition of a DestroyLocalCond record is rendered as
\* a frame offset when bit 0 of param is clear and as a register number when
\* bit 0 of param is set.
C16_CondModeBit0 ==
    rendered.called =>
        \A i \in DestroyLocalCondRecords :
            CondLine(i).mode =
                IF Table.exception_actions[i].action_param % 2 = 0
                THEN "frame" ELSE "register"

\* C16, amended: the condition of a DestroyLocalCond record is rendered as a
\* frame offset exactly when param is 0 and as a register number for every
\* other param; the number shown is the condition field, the first 16-bit
\* word of the payload.
C16_CondModeZero ==
    rendered.called =>
        \A i \in DestroyLocalCondRecords :
            LET rec == Table.exception_actions[i]
            IN /\ CondLine(i).mode =
                     IF rec.action_param = 0 THEN "frame" ELSE "register"
               /\ CondLine(i).args[1] = <<0, rec.bytes[1] * 256 + rec.bytes[2]>>

\* a DestroyLocalCond record with param 0x80 (bit 0 clear), rendered with
\* its condition as a register number
C16_Witness ==
    /\ rendered.called
    /\ \E i \in DestroyLocalCondRecords :
          /\ Table.exception_actions[i].action_param = 128
          /\ CondLine(i).mode = "register"

\* ---------------------------------------------------------------------- C17
\* the steps of one call of decode_extab
Decode ==
    \/ Begin
    \/ ParseHeader
    \/ ParsePcRange
    \/ SkipTerminator
    \/ ParseActionEntry
    \/ EndOfActions
    \/ Return

\* a call that has begun runs on until it returns or panics
SpecFair == Init /\ [][Next]_vars /\ WF_vars(Decode)

\* decode_extab has ended: with a table, an error or a panic
Terminal == pc \in {"done", "shown"} /\ result.kind \in {"Ok", "Err", "Panic"}

\* the place of a step in the call
Stage(p) ==
    CASE p = "begin" -> 0 [] p = "header" -> 1 [] p = "pc_ranges" -> 2
      [] p = "actions" -> 3 [] p = "return" -> 4 [] p = "done" -> 5
      [] p = "shown" -> 6

\* every step goes on to a later stage or stays in its loop with a larger
\* cursor; the cursor never decreases and stays within the buffer while a
\* loop goes on; a PC-range iteration that goes on adds the record size, an
\* action iteration that goes on adds at least 2, and the action loop body
\* runs only while the cursor is below the length
CursorProgress ==
    /\ offset' >= offset
    /\ Stage(pc') > Stage(pc) \/ (pc' = pc /\ offset' > offset)
    /\ pc' \in {"pc_ranges", "actions"} => offset' <= length'
    /\ (pc = "pc_ranges" /\ pc' = "pc_ranges") => offset' = offset + 8
    /\ (pc = "actions" /\ pc' = "actions") => offset' >= offset + 2
    /\ (pc = "actions" /\ offset' # offset) => offset < length /\ offset' > offset
    /\ (pc = "actions" /\ ~(offset < length)) => pc' = "return"

\* C17: for every input buffer decode_extab reaches a terminal outcome (a
\* table, an error or a panic) after finitely many steps: every PC-range
\* iteration adds the record size to the cursor, every action iteration
\* adds at least 2, the cursor never decreases, and the action loop runs
\* only while the cursor is below the length.
C17_Terminates == <>Terminal /\ [][CursorProgress]_vars

\* a decode that went twice through the PC-range loop and came to its end
\* with the cursor at the length
C17_Witness ==
    /\ Terminal
    /\ result.kind = "Ok"
    /\ Len(extab_data.pc_actions) = 2
    /\ offset = length
    /\ offset = 24

\* ---------------------------------------------------------------------- C18
\* the sum of the widths of the first n fields
RECURSIVE WidthOfFields(_, _)
WidthOfFields(fields, n) ==
    IF n = 0 THEN 0 ELSE WidthOfFields(fields, n - 1) + fields[n].width

\* the big-endian value of the `width` bytes of `payload` after the first
\* `before` bytes, as get_exaction_data keeps it
BigEndianAt(payload, before, width) ==
    IF width = 2
    THEN <<0, payload[before + 1] * 256 + payload[before + 2]>>
    ELSE <<payload[before + 1] * 256 + payload[before + 2],
           payload[before + 3] * 256 + payload[before + 4]>>

\* C18: for every action record of a successful decode get_exaction_data
\* reads its fields one after the other from payload offset 0, and the
\* widths of the fields read add up to the payload length exactly; for
\* Specification it reads `count` 32-bit entries after the 10 fixed bytes;
\* for a destructor-bearing kind dtor_address is the value of the record's
\* relocation.
C18_PayloadConsumed ==
    rendered.called =>
        \A i \in 1..Len(rendered.actions) :
            LET rec == Table.exception_actions[i]
                d == rendered.actions[i].exaction_data
                n == Len(d.fields)
            IN /\ ~d.panicked
               /\ d.variant = rec.action_type
               /\ d.offset = Len(rec.bytes)
               /\ WidthOfFields(d.fields, n) = Len(rec.bytes)
               /\ \A j \in 1..n :
                     d.fields[j].value =
                         BigEndianAt(rec.bytes, WidthOfFields(d.fields, j - 1),
                                     d.fields[j].width)
               /\ rec.action_type = "Specification" =>
                     /\ WidthOfFields(d.fields, 3) = 10
                     /\ n = 3 + (rec.bytes[1] * 256 + rec.bytes[2])
                     /\ \A j \in 4..n : d.fields[j].width = 4
               /\ IsDtorRecord(rec) =>
                     /\ d.fields[n].name = "dtor_address"
                     /\ d.fields[n].value =
                           Table.relocations[DtorRecordsBefore(i) + 1].address

\* a rendered table with a Specification record of two entries and a
\* destructor-bearing record
C18_Witness ==
    /\ rendered.called
    /\ \E i \in 1..Len(rendered.actions) :
          /\ rendered.actions[i].exaction_data.variant = "Specification"
          /\ Len(rendered.actions[i].exaction_data.fields) = 5
          /\ rendered.actions[i].exaction_data.offset = 18
    /\ \E i \in 1..Len(rendered.actions) :
          /\ IsDtorRecord(Table.exception_actions[i])
          /\ rendered.actions[i].exaction_data.offset = 18

\* ---------------------------------------------------------------------- C19
\* the offset just past record `rec`
RecordEnd(rec) == rec.action_offset + 2 + Len(rec.bytes)

\* the offset just past the terminator of the PC-range list
ActionRegionStart == TerminatorOffset(Len(Table.pc_actions)) + 4

\* C19: in a successful decode the action records tile the action region:
\* the first starts just past the PC-range terminator, each following one
\* starts where the one before it ends (its offset + 2 + its payload
\* length), the last ends at the buffer length, and the action_offset
\* values increase strictly in exception_actions order.
C19_RecordsTile ==
    Success =>
        LET recs == Table.exception_actions
            n == Len(recs)
        IN /\ n = 0 => ActionRegionStart = Len(bytes)
           /\ n > 0 =>
                 /\ recs[1].action_offset = ActionRegionStart
                 /\ RecordEnd(recs[n]) = Len(bytes)
           /\ \A i \in 1..(n - 1) :
                 /\ recs[i + 1].action_offset = RecordEnd(recs[i])
                 /\ recs[i + 1].action_offset > recs[i].action_offset
           /\ \A i \in 1..n :
                 recs[i].bytes =
                     SubSeq(bytes, recs[i].action_offset + 3, RecordEnd(recs[i]))

\* a decode of two records, the first with a payload, that ends at the
\* buffer length
C19_Witness ==
    /\ Success
    /\ Len(Table.exception_actions) = 2
    /\ Len(Table.exception_actions[1].bytes) > 0
    /\ Table.exception_actions[2].action_offset =
          RecordEnd(Table.exception_actions[1])
    /\ RecordEnd(Table.exception_actions[2]) = Len(bytes)

\* ---------------------------------------------------------------------- C20
\* C20: the Internal error is unreachable: for each of the 17 kinds
\* has_dtor_ref holds exactly when get_dtor_address_value_offset names a
\* field offset, so every destructor-bearing record parsed so far has its
\* relocation and neither parse_exception_table nor decode_extab ends with
\* Internal.
C20_InternalUnreachable ==
    /\ \A i \in 1..17 :
          has_dtor_ref(KindNames[i]) <=>
              get_dtor_address_value_offset(KindNames[i]) # NoOffset
    /\ Len(extab_data.relocations) =
          Len(SelectSeq(extab_data.exception_actions, IsDtorRecord))
    /\ status.err # Internal
    /\ result.err # Internal

\* a table of two destructor-bearing records, one of them a DeletePointer,
\* decoded with a relocation for each
C20_Witness ==
    /\ Success
    /\ Len(Table.relocations) = 2
    /\ \E i \in 1..Len(Table.exception_actions) :
          Table.exception_actions[i].action_type = "DeletePointer"
    /\ status = StatusOk

====
